---- MODULE Spec2Model ----
\* Model of ArrayF64 (src/src/arrayf64.rs) and the iterator family
\* (src/src/utils.rs): manual buffer allocation, validity bitmap,
\* indexed access, equality, clone, drop and the three iterators.
EXTENDS Integers, Sequences, FiniteSets, TLC

\* ---------------------------------------------------------------- bounds
MaxLen == 3          \* longest short input sequence
MaxEqLen == 2        \* longest short input sequence of the two compared arrays
MaxOwnLen == 2       \* longest input sequence of the ownership specification
MaxRows == 10        \* longest input sequence crossing a validity byte
NumAddrs == 4        \* number of distinct heap addresses
ExtraNext == 2       \* next() calls allowed after the first end marker
UsizeModulus == 65536 \* modulus standing for 2^64 in wrapping usize arithmetic

\* ------------------------------------------------------------- constants
BitsPerByte == 8
SizeOfF64 == 8

Addrs == 1..NumAddrs
Slots == {1, 2}       \* the array bindings
NoPtr == 0           \* Option<NonNull<_>>::None

\* Option<T>: None is the empty tuple, Some(x) the 1-tuple.
None == <<>>
Some(x) == <<x>>
IsSome(o) == o # <<>>

\* f64 values: two ordinary numbers and NaN.
NaN == "NaN"
Floats == {"1.0", "2.0", NaN}
F64 == {None} \cup {Some(x) : x \in Floats}

\* f64's PartialEq: NaN is unequal to everything, itself included.
FloatEq(x, y) == x # NaN /\ y # NaN /\ x = y
\* Option<f64>'s derived PartialEq.
OptEq(a, b) ==
  IF IsSome(a) /\ IsSome(b) THEN FloatEq(a[1], b[1])
  ELSE ~IsSome(a) /\ ~IsSome(b)

\* ----------------------------------------------------- u8 bit arithmetic
Shl1(k) == 2 ^ k                         \* 1 << k
Not8(x) == 255 - x                       \* !x on u8
RECURSIVE BitAnd(_, _, _)
BitAnd(x, y, n) ==
  IF n = 0 THEN 0
  ELSE (x % 2) * (y % 2) + 2 * BitAnd(x \div 2, y \div 2, n - 1)
RECURSIVE BitOr(_, _, _)
BitOr(x, y, n) ==
  IF n = 0 THEN 0
  ELSE (IF x % 2 = 1 \/ y % 2 = 1 THEN 1 ELSE 0)
       + 2 * BitOr(x \div 2, y \div 2, n - 1)
And8(x, y) == BitAnd(x, y, BitsPerByte)
Or8(x, y) == BitOr(x, y, BitsPerByte)

\* ------------------------------------------------------------ the heap
\* A heap is [bufs, faults]: bufs maps an address to its buffer, faults
\* collects the memory errors committed so far.
FreeBuf == [live |-> FALSE, kind |-> "none", size |-> 0, cells |-> <<>>]
EmptyHeap == [bufs |-> [a \in Addrs |-> FreeBuf], faults |-> {}]

ValuesSize(len) == len * SizeOfF64
ValiditySize(len) == (len + 7) \div 8

Fault(h, f) == [h EXCEPT !.faults = @ \cup {f}]

\* alloc::alloc(layout): a fresh buffer of uninitialised cells.
HeapAlloc(h, addr, kind, size, ncells) ==
  IF h.bufs[addr].live THEN Fault(h, "alloc_of_live_address")
  ELSE [h EXCEPT !.bufs[addr] =
          [live |-> TRUE, kind |-> kind, size |-> size,
           cells |-> [i \in 1..ncells |-> <<>>]]]

\* alloc::dealloc(ptr, layout)
HeapDealloc(h, addr, size) ==
  IF ~h.bufs[addr].live THEN Fault(h, "double_free")
  ELSE LET g == IF h.bufs[addr].size # size
                THEN Fault(h, "dealloc_size_mismatch") ELSE h
       IN [g EXCEPT !.bufs[addr] = FreeBuf]

\* ptr::write(ptr.add(off), v)
HeapWrite(h, addr, off, v) ==
  IF ~h.bufs[addr].live THEN Fault(h, "write_after_free")
  ELSE IF off >= Len(h.bufs[addr].cells) THEN Fault(h, "write_out_of_bounds")
  ELSE [h EXCEPT !.bufs[addr].cells[off + 1] = <<v>>]

\* Whether ptr::read(ptr.add(off)) reads a live, initialised cell.
ReadOk(h, addr, off) ==
  /\ addr \in Addrs
  /\ h.bufs[addr].live
  /\ off < Len(h.bufs[addr].cells)
  /\ h.bufs[addr].cells[off + 1] # <<>>

\* ptr::read of a u8 / an f64.
ReadByte(h, addr, off) ==
  IF ReadOk(h, addr, off) THEN h.bufs[addr].cells[off + 1][1] ELSE 0
ReadF64(h, addr, off) ==
  IF ReadOk(h, addr, off) THEN h.bufs[addr].cells[off + 1][1] ELSE "poison"

\* ---------------------------------------------------------- ArrayF64
NoArray == [st |-> "none", ptr |-> NoPtr, val_ptr |-> NoPtr,
            len |-> 0, nulls |-> 0, src |-> <<>>, from |-> 0]

\* Self::allocate(len)
allocate(h, len, va, ba) ==
  HeapAlloc(HeapAlloc(h, va, "values", ValuesSize(len), len),
            ba, "validity", ValiditySize(len), ValiditySize(len))

\* dealloc_validity with the size rounded down.
DeallocValidityRoundedDown(h, ptr, len) ==
  IF ptr = NoPtr THEN h ELSE HeapDealloc(h, ptr, len \div 8)

\* Self::dealloc_validity(ptr, len)
dealloc_validity(h, ptr, len) ==
  IF ptr = NoPtr THEN h ELSE HeapDealloc(h, ptr, ValiditySize(len))

\* Self::dealloc_values(ptr, len)
dealloc_values(h, ptr, len) ==
  IF ptr = NoPtr THEN h ELSE HeapDealloc(h, ptr, ValuesSize(len))

\* LoopBody without `nulls += 1`.
LoopBodyNoCount(st, idx, value, va, ba) ==
  LET s1 == IF IsSome(value)
            THEN [st EXCEPT !.h = HeapWrite(st.h, va, idx, value[1]),
                            !.val_byte = Or8(@, Shl1(idx % BitsPerByte))]
            ELSE [st EXCEPT !.val_byte = And8(@, Not8(Shl1(idx % BitsPerByte)))]
  IN IF (idx + 1) % BitsPerByte = 0
     THEN [s1 EXCEPT !.h = HeapWrite(s1.h, ba, s1.val_offset, s1.val_byte),
                     !.val_byte = 0,
                     !.val_offset = @ + 1]
     ELSE s1

\* LoopBody without `val_offset += 1`.
LoopBodyNoAdvance(st, idx, value, va, ba) ==
  LET s1 == IF IsSome(value)
            THEN [st EXCEPT !.h = HeapWrite(st.h, va, idx, value[1]),
                            !.val_byte = Or8(@, Shl1(idx % BitsPerByte))]
            ELSE [st EXCEPT !.nulls = @ + 1,
                            !.val_byte = And8(@, Not8(Shl1(idx % BitsPerByte)))]
  IN IF (idx + 1) % BitsPerByte = 0
     THEN [s1 EXCEPT !.h = HeapWrite(s1.h, ba, s1.val_offset, s1.val_byte),
                     !.val_byte = 0]
     ELSE s1

\* LoopBody without `val_byte = 0_u8` after a byte is committed.
LoopBodyNoReset(st, idx, value, va, ba) ==
  LET s1 == IF IsSome(value)
            THEN [st EXCEPT !.h = HeapWrite(st.h, va, idx, value[1]),
                            !.val_byte = Or8(@, Shl1(idx % BitsPerByte))]
            ELSE [st EXCEPT !.nulls = @ + 1,
                            !.val_byte = And8(@, Not8(Shl1(idx % BitsPerByte)))]
  IN IF (idx + 1) % BitsPerByte = 0
     THEN [s1 EXCEPT !.h = HeapWrite(s1.h, ba, s1.val_offset, s1.val_byte),
                     !.val_offset = @ + 1]
     ELSE s1

\* One iteration of the for loop of from_sized_iter; st is
\* [h, val_byte, val_offset, nulls].
LoopBody(st, idx, value, va, ba) ==
  LET s1 == IF IsSome(value)
            THEN [st EXCEPT !.h = HeapWrite(st.h, va, idx, value[1]),
                            !.val_byte = Or8(@, Shl1(idx % BitsPerByte))]
            ELSE [st EXCEPT !.nulls = @ + 1,
                            !.val_byte = And8(@, Not8(Shl1(idx % BitsPerByte)))]
  IN IF (idx + 1) % BitsPerByte = 0
     THEN [s1 EXCEPT !.h = HeapWrite(s1.h, ba, s1.val_offset, s1.val_byte),
                     !.val_byte = 0,
                     !.val_offset = @ + 1]
     ELSE s1

RECURSIVE Loop(_, _, _, _, _)
Loop(st, idx, sized, va, ba) ==
  IF idx >= Len(sized) THEN st
  ELSE Loop(LoopBody(st, idx, sized[idx + 1], va, ba), idx + 1, sized, va, ba)

\* ArrayF64::from_sized_iter: returns [h, arr].
from_sized_iter(h, sized, va, ba) ==
  LET len == Len(sized) IN
  IF len = 0
  THEN [h |-> h,
        arr |-> [NoArray EXCEPT !.st = "array"]]
  ELSE
    LET h0 == allocate(h, len, va, ba)
        st == Loop([h |-> h0, val_byte |-> 0, val_offset |-> 0, nulls |-> 0],
                   0, sized, va, ba)
        h1 == IF len % BitsPerByte # 0
              THEN HeapWrite(st.h, ba, st.val_offset, st.val_byte)
              ELSE st.h
        nulls == st.nulls
        h2 == IF nulls = 0 THEN dealloc_validity(h1, ba, len) ELSE h1
        h3 == IF nulls = len THEN dealloc_values(h2, va, len) ELSE h2
    IN [h |-> h3,
        arr |-> [st |-> "array",
                 ptr |-> IF nulls = len THEN NoPtr ELSE va,
                 val_ptr |-> IF nulls = 0 THEN NoPtr ELSE ba,
                 len |-> len, nulls |-> nulls, src |-> sized, from |-> 0]]

\* is_null with the bit test inverted.
IsNullInverted(h, arr, idx) ==
  IF ~(idx < arr.len) THEN [panic |-> TRUE, ret |-> FALSE, reads |-> {}]
  ELSE IF arr.val_ptr = NoPtr THEN [panic |-> FALSE, ret |-> FALSE, reads |-> {}]
  ELSE LET byte_index == idx \div BitsPerByte
           val_byte == ReadByte(h, arr.val_ptr, byte_index)
       IN [panic |-> FALSE,
           ret |-> And8(val_byte, Shl1(idx % BitsPerByte)) # 0,
           reads |-> {<<arr.val_ptr, byte_index>>}]

\* ArrayF64::is_null: [panic, ret, reads]. The assertion idx < len fires
\* before the validity buffer is looked at.
is_null(h, arr, idx) ==
  IF ~(idx < arr.len) THEN [panic |-> TRUE, ret |-> FALSE, reads |-> {}]
  ELSE IF arr.val_ptr = NoPtr THEN [panic |-> FALSE, ret |-> FALSE, reads |-> {}]
  ELSE LET byte_index == idx \div BitsPerByte
           val_byte == ReadByte(h, arr.val_ptr, byte_index)
       IN [panic |-> FALSE,
           ret |-> And8(val_byte, Shl1(idx % BitsPerByte)) = 0,
           reads |-> {<<arr.val_ptr, byte_index>>}]

\* get without its bounds check.
GetUnchecked(h, arr, idx) ==
  LET n == is_null(h, arr, idx) IN
  IF n.panic THEN [panic |-> TRUE, ret |-> None, reads |-> n.reads]
  ELSE IF n.ret THEN [panic |-> FALSE, ret |-> None, reads |-> n.reads]
  ELSE IF arr.ptr = NoPtr
       THEN [panic |-> FALSE, ret |-> None, reads |-> n.reads]
  ELSE [panic |-> FALSE,
        ret |-> Some(ReadF64(h, arr.ptr, idx)),
        reads |-> n.reads \cup {<<arr.ptr, idx>>}]

\* ArrayF64::get: [panic, ret, reads]
get(h, arr, idx) ==
  IF idx >= arr.len THEN [panic |-> FALSE, ret |-> None, reads |-> {}]
  ELSE LET n == is_null(h, arr, idx) IN
       IF n.panic THEN [panic |-> TRUE, ret |-> None, reads |-> n.reads]
       ELSE IF n.ret THEN [panic |-> FALSE, ret |-> None, reads |-> n.reads]
       ELSE IF arr.ptr = NoPtr
            THEN [panic |-> FALSE, ret |-> None, reads |-> n.reads]
       ELSE [panic |-> FALSE,
             ret |-> Some(ReadF64(h, arr.ptr, idx)),
             reads |-> n.reads \cup {<<arr.ptr, idx>>}]

\* ArrayF64::get_ref: Some(&values[idx]) is the referenced cell <<ptr, idx>>.
get_ref(h, arr, idx) ==
  IF idx >= arr.len THEN [panic |-> FALSE, ret |-> None, reads |-> {}]
  ELSE LET n == is_null(h, arr, idx) IN
       IF n.panic THEN [panic |-> TRUE, ret |-> None, reads |-> n.reads]
       ELSE IF n.ret THEN [panic |-> FALSE, ret |-> None, reads |-> n.reads]
       ELSE IF arr.ptr = NoPtr
            THEN [panic |-> FALSE, ret |-> None, reads |-> n.reads]
       ELSE [panic |-> FALSE, ret |-> Some(<<arr.ptr, idx>>), reads |-> n.reads]

\* *r for a reference handed out by get_ref.
Deref(h, r) == ReadF64(h, r[1], r[2])
\* Option<&f64>::copied: [ret, reads]
copied(h, o) ==
  IF IsSome(o) THEN [ret |-> Some(Deref(h, o[1])), reads |-> {o[1]}]
  ELSE [ret |-> None, reads |-> {}]

\* ArrayF64::compare_validity: [ret, reads]
RECURSIVE ValidityLoop(_, _, _, _, _)
ValidityLoop(h, own, other, offset, buffer_len) ==
  IF offset >= buffer_len THEN [ret |-> TRUE, reads |-> {}]
  ELSE LET rd == {<<own, offset>>, <<other, offset>>} IN
       IF ReadByte(h, own, offset) # ReadByte(h, other, offset)
       THEN [ret |-> FALSE, reads |-> rd]
       ELSE LET r == ValidityLoop(h, own, other, offset + 1, buffer_len)
            IN [ret |-> r.ret, reads |-> rd \cup r.reads]

compare_validity(h, self, other) ==
  LET buffer_len == (self.len + 7) \div 8 IN
  IF self.val_ptr # NoPtr /\ other.val_ptr # NoPtr
  THEN ValidityLoop(h, self.val_ptr, other.val_ptr, 0, buffer_len)
  ELSE IF self.val_ptr = NoPtr /\ other.val_ptr = NoPtr
       THEN [ret |-> TRUE, reads |-> {}]
  ELSE [ret |-> FALSE, reads |-> {}]

\* ArrayF64::compare_values: [ret, reads]
RECURSIVE ValuesLoop(_, _, _, _)
ValuesLoop(h, self, other, idx) ==
  IF idx >= self.len THEN [ret |-> TRUE, reads |-> {}]
  ELSE LET own == get(h, self, idx)
           oth == get(h, other, idx)
           rd == own.reads \cup oth.reads
       IN IF ~OptEq(own.ret, oth.ret) THEN [ret |-> FALSE, reads |-> rd]
          ELSE LET r == ValuesLoop(h, self, other, idx + 1)
               IN [ret |-> r.ret, reads |-> rd \cup r.reads]

\* compare_values starting at row 1.
CompareValuesFromOne(h, self, other) == ValuesLoop(h, self, other, 1)

compare_values(h, self, other) == ValuesLoop(h, self, other, 0)

\* <ArrayF64 as PartialEq>::eq: [ret, reads]
eq(h, self, other) ==
  IF self.len # other.len THEN [ret |-> FALSE, reads |-> {}]
  ELSE IF self.nulls # other.nulls THEN [ret |-> FALSE, reads |-> {}]
  ELSE LET cv == compare_validity(h, self, other) IN
       IF ~cv.ret THEN [ret |-> FALSE, reads |-> cv.reads]
       ELSE LET cx == compare_values(h, self, other) IN
            [ret |-> cx.ret, reads |-> cv.reads \cup cx.reads]

\* <ArrayF64 as Drop>::drop
drop(h, arr) ==
  dealloc_validity(dealloc_values(h, arr.ptr, arr.len), arr.val_ptr, arr.len)

\* ------------------------------------------------------- iterators
\* Iter / CopiedIter / IntoIter: [kind, slot, idx, out]; out is the
\* sequence of values returned by next() so far.
NoIter == [kind |-> "none", slot |-> 0, idx |-> 0, out |-> <<>>]
IterKinds == {"iter", "copied", "into"}

\* Iter::new / CopiedIter::new / IntoIter::new
IterNew(kind, a) == [kind |-> kind, slot |-> a, idx |-> 0, out |-> <<>>]

\* The row lookup each iterator delegates to.
IterItem(h, kind, arr, idx) ==
  IF kind = "iter" THEN get_ref(h, arr, idx) ELSE get(h, arr, idx)

\* next with the end test off by one.
NextOffByOne(h, kind, arr, cur) ==
  LET idx == cur IN
  IF idx > arr.len
  THEN [idx |-> (cur + 1) % UsizeModulus, item |-> None, reads |-> {}]
  ELSE LET g == IterItem(h, kind, arr, idx)
       IN [idx |-> (cur + 1) % UsizeModulus, item |-> Some(g.ret),
           reads |-> g.reads]

\* Iterator::next: [idx, item, reads]; the end marker is None, an item
\* Some(item).
next(h, kind, arr, cur) ==
  LET idx == cur IN
  IF idx >= arr.len
  THEN [idx |-> (cur + 1) % UsizeModulus, item |-> None, reads |-> {}]
  ELSE LET g == IterItem(h, kind, arr, idx)
       IN [idx |-> (cur + 1) % UsizeModulus, item |-> Some(g.ret),
           reads |-> g.reads]

\* self.array.len() - self.idx on usize: the possible outcomes. With
\* overflow checks (debug profile) an underflow panics, without them
\* (release profile) it wraps.
RemainingOutcomes(len, idx) ==
  IF len >= idx
  THEN {[panic |-> FALSE, ret |-> len - idx]}
  ELSE {[panic |-> TRUE, ret |-> 0],
        [panic |-> FALSE, ret |-> UsizeModulus + len - idx]}

\* self.iter().map(|val| val.copied()) drained by from_sized_iter:
\* [seq, reads]
RECURSIVE IterCopied(_, _, _)
IterCopied(h, arr, idx) ==
  LET n == next(h, "iter", arr, idx) IN
  IF ~IsSome(n.item) THEN [seq |-> <<>>, reads |-> n.reads]
  ELSE LET c == copied(h, n.item[1])
           r == IterCopied(h, arr, n.idx)
       IN [seq |-> <<c.ret>> \o r.seq,
           reads |-> n.reads \cup c.reads \cup r.reads]

\* value.into_iter().collect(): [seq, reads]
RECURSIVE CollectLoop(_, _, _)
CollectLoop(h, arr, idx) ==
  LET n == next(h, "into", arr, idx) IN
  IF ~IsSome(n.item) THEN [seq |-> <<>>, reads |-> n.reads]
  ELSE LET r == CollectLoop(h, arr, n.idx)
       IN [seq |-> <<n.item[1]>> \o r.seq, reads |-> n.reads \cup r.reads]

\* ------------------------------------------------------------- state
VARIABLES
  heap,    \* the allocator's buffers and the memory faults so far
  arrs,    \* the array held by each binding
  it,      \* the iterator in use, if any
  last     \* the last operation, its arguments and what it returned

vars == <<heap, arrs, it, last>>

\* A record of an operation: a, b the bindings, idx the index argument (the
\* iterator's position for iterator operations), len the array's length.
Op(op, a, b, idx, len, ret, panic, reads) ==
  [op |-> op, a |-> a, b |-> b, idx |-> idx, len |-> len,
   ret |-> ret, panic |-> panic, reads |-> reads]

NoOp == Op("init", 0, 0, 0, 0, <<>>, FALSE, {})

\* The heap after an operation performed the given reads.
AfterReads(h, reads) ==
  IF \A r \in reads : ReadOk(h, r[1], r[2]) THEN h
  ELSE Fault(h, "invalid_read")

FreeAddrs(h) == {x \in Addrs : ~h.bufs[x].live}
\* The address alloc::alloc returns. Free buffers hold no data and the
\* program never compares or orders addresses, so every choice of a free
\* address gives the same behaviour up to renaming; the allocator is
\* modelled as first-fit, which also reuses released addresses at once.
AllocAddr(h, taken) ==
  CHOOSE x \in FreeAddrs(h) \ taken : \A y \in FreeAddrs(h) \ taken : x <= y
CanAllocate(h) == Cardinality(FreeAddrs(h)) >= 2

Borrowed(a) == it.kind \in {"iter", "copied"} /\ it.slot = a
Usable(a) == arrs[a].st = "array"

\* Sequences over S of length at most n.
RECURSIVE SeqsUpTo(_, _)
SeqsUpTo(S, n) ==
  IF n = 0 THEN {<<>>}
  ELSE LET P == SeqsUpTo(S, n - 1)
       IN P \cup {Append(p, x) : p \in {q \in P : Len(q) = n - 1}, x \in S}

Rows == {None, Some("1.0")}
\* Short inputs over every kind of row.
Inputs == SeqsUpTo(F64, MaxLen)
\* Inputs that reach and cross a byte of the validity bitmap: every null
\* pattern on the rows next to a byte boundary or an end (the first row, the
\* last row of the first byte, the first row of the second byte, the last
\* row), the other rows being all null or all valid.
EdgeRows(n) == {1, BitsPerByte, BitsPerByte + 1, n} \cap (1..n)
WideOfLen(n) ==
  {s \in [1..n -> Rows] :
     \E fill \in Rows : \A i \in (1..n) \ EdgeRows(n) : s[i] = fill}
WideInputs == UNION {WideOfLen(n) : n \in (BitsPerByte - 1)..MaxRows}
\* Vec<f64> / [f64; N] inputs.
PlainInputs == SeqsUpTo({"1.0", "2.0"}, MaxLen)
\* Inputs of the two compared arrays: the short ones, and the longest ones
\* that are valid everywhere but in the last row of the first validity byte
\* and in the last row.
EqInputs ==
  SeqsUpTo(F64, MaxEqLen)
  \cup {s \in [1..MaxRows -> Rows] :
          \A i \in 1..MaxRows : i \notin {BitsPerByte, MaxRows} => s[i] = Some("1.0")}
\* Inputs of the ownership specification: null rows and valid rows.
OwnInputs == SeqsUpTo(Rows, MaxOwnLen)
OwnPlainInputs == SeqsUpTo({"1.0"}, MaxOwnLen)

Init ==
  /\ heap = EmptyHeap
  /\ arrs = [a \in Slots |-> NoArray]
  /\ it = NoIter
  /\ last = NoOp

\* Construction into the binding a from the sequence s.
Construct(op, a, s) ==
  /\ arrs[a].st = "none"
  /\ CanAllocate(heap)
  /\ LET va == AllocAddr(heap, {})
         ba == AllocAddr(heap, {va})
         r == from_sized_iter(heap, s, va, ba)
     IN /\ heap' = r.h
        /\ arrs' = [arrs EXCEPT ![a] = [r.arr EXCEPT !.src = s]]
  /\ last' = Op(op, a, 0, 0, Len(s), <<>>, FALSE, {})
  /\ UNCHANGED it

\* Array::new, ArrayF64::from_vec, From<Vec<F64>>, From<&[F64; N]>
New(a, s) == Construct("new", a, s)

\* From<Vec<f64>>, From<&[f64; N]>
FromPlain(a, v) == Construct("from_plain", a, [i \in 1..Len(v) |-> Some(v[i])])

\* clone copying the pointers instead of the buffers.
CloneShallow(a, b) ==
  /\ Usable(a)
  /\ a # b
  /\ arrs[b].st = "none"
  /\ heap' = heap
  /\ arrs' = [arrs EXCEPT ![b] = [arrs[a] EXCEPT !.from = a]]
  /\ last' = Op("clone", a, b, 0, arrs[a].len, <<>>, FALSE, {})
  /\ UNCHANGED it

\* <ArrayF64 as Clone>::clone, the clone bound to b.
Clone(a, b) ==
  /\ Usable(a)
  /\ a # b
  /\ arrs[b].st = "none"
  /\ CanAllocate(heap)
  /\ LET sized == IterCopied(heap, arrs[a], 0)
         va == AllocAddr(heap, {})
         ba == AllocAddr(heap, {va})
         r == from_sized_iter(AfterReads(heap, sized.reads), sized.seq, va, ba)
     IN /\ heap' = r.h
        /\ arrs' = [arrs EXCEPT ![b] =
                      [r.arr EXCEPT !.src = arrs[a].src, !.from = a]]
        /\ last' = Op("clone", a, b, 0, arrs[a].len, <<>>, FALSE, sized.reads)
  /\ UNCHANGED it

\* The binding a goes out of scope.
Drop(a) ==
  /\ Usable(a)
  /\ ~Borrowed(a)
  /\ heap' = drop(heap, arrs[a])
  /\ arrs' = [arrs EXCEPT ![a] = NoArray]
  /\ last' = Op("drop", a, 0, 0, arrs[a].len, <<>>, FALSE, {})
  /\ UNCHANGED it

\* A call of get, get_ref or is_null on the binding a.
Access(op, r, a, idx) ==
  /\ Usable(a)
  /\ heap' = AfterReads(heap, r.reads)
  /\ last' = Op(op, a, 0, idx, arrs[a].len, r.ret, r.panic, r.reads)
  /\ UNCHANGED <<arrs, it>>

Get(a, idx) == Access("get", get(heap, arrs[a], idx), a, idx)
GetRef(a, idx) == Access("get_ref", get_ref(heap, arrs[a], idx), a, idx)
IsNull(a, idx) == Access("is_null", is_null(heap, arrs[a], idx), a, idx)

\* a == b
Eq(a, b) ==
  /\ Usable(a) /\ Usable(b)
  /\ LET r == eq(heap, arrs[a], arrs[b]) IN
     /\ heap' = AfterReads(heap, r.reads)
     /\ last' = Op("eq", a, b, 0, arrs[a].len, r.ret, FALSE, r.reads)
  /\ UNCHANGED <<arrs, it>>

\* Vec::<F64>::from(array): drains an IntoIter, which then drops the array.
\* ret is the vector together with the sequence the array was built from.
Collect(a) ==
  /\ Usable(a)
  /\ ~Borrowed(a)
  /\ LET c == CollectLoop(heap, arrs[a], 0) IN
     /\ heap' = drop(AfterReads(heap, c.reads), arrs[a])
     /\ last' = Op("collect", a, 0, 0, arrs[a].len,
                   [vec |-> c.seq, src |-> arrs[a].src], FALSE, c.reads)
  /\ arrs' = [arrs EXCEPT ![a] = NoArray]
  /\ UNCHANGED it

\* array.iter() / array.copied_iter()
MakeIter(kind, a) ==
  /\ kind \in {"iter", "copied"}
  /\ Usable(a)
  /\ it.kind = "none"
  /\ it' = IterNew(kind, a)
  /\ last' = Op(kind, a, 0, 0, arrs[a].len, <<>>, FALSE, {})
  /\ UNCHANGED <<heap, arrs>>

\* array.into_iter(): the array moves into the iterator.
IntoIter(a) ==
  /\ Usable(a)
  /\ it.kind = "none"
  /\ it' = IterNew("into", a)
  /\ arrs' = [arrs EXCEPT ![a].st = "moved"]
  /\ last' = Op("into_iter", a, 0, 0, arrs[a].len, <<>>, FALSE, {})
  /\ UNCHANGED heap

\* iterator.next()
IterNext ==
  /\ it.kind # "none"
  /\ Len(it.out) < arrs[it.slot].len + 1 + ExtraNext
  /\ LET arr == arrs[it.slot]
         n == next(heap, it.kind, arr, it.idx)
     IN /\ heap' = AfterReads(heap, n.reads)
        /\ it' = [it EXCEPT !.idx = n.idx, !.out = Append(@, n.item)]
        /\ last' = Op("next", it.slot, 0, n.idx, arr.len, n.item, FALSE, n.reads)
  /\ UNCHANGED arrs

\* iterator.size_hint() and ExactSizeIterator::len()
SizeHint(op) ==
  /\ op \in {"size_hint", "len"}
  /\ it.kind # "none"
  /\ \E o \in RemainingOutcomes(arrs[it.slot].len, it.idx) :
       last' = Op(op, it.slot, 0, it.idx, arrs[it.slot].len, o.ret, o.panic, {})
  /\ UNCHANGED <<heap, arrs, it>>

\* The iterator goes out of scope; an IntoIter drops its array.
IterGone ==
  /\ it' = NoIter
  /\ IF it.kind = "into"
     THEN /\ heap' = drop(heap, arrs[it.slot])
          /\ arrs' = [arrs EXCEPT ![it.slot] = NoArray]
     ELSE UNCHANGED <<heap, arrs>>

\* iterator.count(): consumes the iterator, also when it panics.
Count ==
  /\ it.kind # "none"
  /\ \E o \in RemainingOutcomes(arrs[it.slot].len, it.idx) :
       last' = Op("count", it.slot, 0, it.idx, arrs[it.slot].len,
                  o.ret, o.panic, {})
  /\ IterGone

DropIter ==
  /\ it.kind # "none"
  /\ last' = Op(IF it.kind = "into" THEN "drop_into_iter" ELSE "drop_iter",
                it.slot, 0, it.idx, arrs[it.slot].len, <<>>, FALSE, {})
  /\ IterGone

\* ------------------------------------------------------ specifications
Idxs == 0..(MaxRows + 1)

\* One array: construction, indexed access, conversion back, drop.
Next ==
  \/ \E s \in Inputs \cup WideInputs : New(1, s)
  \/ \E v \in PlainInputs : FromPlain(1, v)
  \/ \E idx \in Idxs : Get(1, idx)
  \/ \E idx \in Idxs : GetRef(1, idx)
  \/ \E idx \in Idxs : IsNull(1, idx)
  \/ Collect(1)
  \/ Drop(1)

Spec == Init /\ [][Next]_vars

\* Two arrays built independently, and their comparison.
NextEq ==
  \/ \E a \in Slots, s \in EqInputs : New(a, s)
  \/ \E a, b \in Slots : Eq(a, b)

SpecEq == Init /\ [][NextEq]_vars

\* An array, its clone, and their drops in either order.
NextClone ==
  \/ \E s \in EqInputs : New(1, s)
  \/ Clone(1, 2)
  \/ \E a \in Slots : Drop(a)

SpecClone == Init /\ [][NextClone]_vars

\* One array and its iterators.
NextIter ==
  \/ \E s \in Inputs : New(1, s)
  \/ \E kind \in {"iter", "copied"} : MakeIter(kind, 1)
  \/ IntoIter(1)
  \/ IterNext
  \/ \E op \in {"size_hint", "len"} : SizeHint(op)
  \/ Count
  \/ DropIter
  \/ Drop(1)

SpecIter == Init /\ [][NextIter]_vars

\* Two arrays and an iterator: every operation that allocates, moves or
\* releases buffers.
NextOwn ==
  \/ \E a \in Slots, s \in OwnInputs : New(a, s)
  \/ \E a \in Slots, v \in OwnPlainInputs : FromPlain(a, v)
  \/ \E a, b \in Slots : Clone(a, b)
  \/ \E a \in Slots : Collect(a)
  \/ \E a \in Slots : IntoIter(a)
  \/ IterNext
  \/ DropIter
  \/ \E a \in Slots : Drop(a)

SpecOwn == Init /\ [][NextOwn]_vars

\* ---------------------------------------------------------- properties
\* Bit k of the byte b.
Bit(b, k) == (b \div (2 ^ k)) % 2
NullCount(s) == Cardinality({i \in 1..Len(s) : s[i] = None})
NaNFree(s) == \A i \in 1..Len(s) : s[i] # Some(NaN)
\* Row-for-row equality of two input sequences under f64's equality.
RowsEqual(s, t) ==
  /\ Len(s) = Len(t)
  /\ \A i \in 1..Len(s) : OptEq(s[i], t[i])
\* The buffers an array points to.
Owned(a) ==
  IF arrs[a].st = "none" THEN {} ELSE {arrs[a].ptr, arrs[a].val_ptr} \ {NoPtr}
LiveAddrs == {x \in Addrs : heap.bufs[x].live}

\* C1: get(idx) and get_ref(idx) with idx >= len return None without a panic
\* and without reading a buffer; is_null(idx) with idx >= len panics, before
\* the validity buffer is read and also when there is none.
OutOfRangeAccess ==
  /\ (last.op \in {"get", "get_ref"} /\ last.idx >= last.len)
       => (last.ret = None /\ ~last.panic /\ last.reads = {})
  /\ (last.op = "is_null" /\ last.idx >= last.len)
       => (last.panic /\ last.reads = {})

\* is_null panicked on a non-empty array that has no validity buffer.
OutOfRangeAccessWitness ==
  /\ last.op = "is_null" /\ last.idx >= last.len /\ last.panic
  /\ Usable(1) /\ arrs[1].len > 0 /\ arrs[1].val_ptr = NoPtr

\* C2: for every in-range idx of an array built from s, is_null(idx) equals
\* get(idx).is_none(), and both equal (s[idx] is None); neither panics.
NullIffGetNone ==
  \A a \in Slots : Usable(a) =>
    \A idx \in 0..(arrs[a].len - 1) :
      LET n == is_null(heap, arrs[a], idx)
          g == get(heap, arrs[a], idx)
      IN /\ ~n.panic /\ ~g.panic
         /\ n.ret <=> (g.ret = None)
         /\ n.ret <=> (arrs[a].src[idx + 1] = None)

\* get returned a value for a valid row of an array that also has null rows.
NullIffGetNoneWitness ==
  /\ last.op = "get" /\ last.idx < last.len /\ last.ret # None
  /\ Usable(1) /\ arrs[1].nulls > 0

\* C3: no double free, no release with another size, no access after
\* release; the allocated buffers are exactly the buffers the arrays own,
\* each owned by one array and allocated with the size of its length; and
\* nothing stays allocated once every array and iterator is gone.
BufferOwnership ==
  /\ heap.faults = {}
  /\ \A x \in Addrs : heap.bufs[x].live <=> (\E a \in Slots : x \in Owned(a))
  /\ \A a, b \in Slots : a # b => Owned(a) \cap Owned(b) = {}
  /\ \A a \in Slots : arrs[a].st # "none" =>
       /\ arrs[a].ptr # NoPtr =>
            /\ arrs[a].ptr # arrs[a].val_ptr
            /\ heap.bufs[arrs[a].ptr].kind = "values"
            /\ heap.bufs[arrs[a].ptr].size = ValuesSize(arrs[a].len)
       /\ arrs[a].val_ptr # NoPtr =>
            /\ heap.bufs[arrs[a].val_ptr].kind = "validity"
            /\ heap.bufs[arrs[a].val_ptr].size = ValiditySize(arrs[a].len)
  /\ (\A a \in Slots : arrs[a].st = "none") => LiveAddrs = {}

\* A consuming iterator over a non-empty array was dropped part-way and
\* nothing is left allocated.
BufferOwnershipWitness ==
  /\ last.op = "drop_into_iter" /\ last.len > 0 /\ last.idx > 0
  /\ \A a \in Slots : arrs[a].st = "none"
  /\ LiveAddrs = {}

\* C4: nulls is the number of None rows and lies in 0..len; the values
\* buffer is present iff nulls < len, the validity buffer iff nulls > 0; an
\* empty array has neither; nothing else is allocated; in an all-null array
\* every row is null.
BufferPresence ==
  /\ \A a \in Slots : Usable(a) =>
       LET arr == arrs[a] IN
       /\ arr.len = Len(arr.src)
       /\ arr.nulls = NullCount(arr.src)
       /\ 0 <= arr.nulls /\ arr.nulls <= arr.len
       /\ (arr.ptr # NoPtr) <=> (arr.nulls < arr.len)
       /\ (arr.val_ptr # NoPtr) <=> (arr.nulls > 0)
       /\ arr.len = 0 => (arr.ptr = NoPtr /\ arr.val_ptr = NoPtr)
       /\ \A x \in Owned(a) : heap.bufs[x].live
       /\ arr.nulls = arr.len =>
            \A idx \in 0..(arr.len - 1) : is_null(heap, arr, idx).ret
  /\ LiveAddrs = UNION {Owned(a) : a \in Slots}

\* The clone of an all-null array of two or more rows.
BufferPresenceWitness ==
  /\ Usable(2) /\ arrs[2].from = 1
  /\ arrs[2].len >= 2 /\ arrs[2].nulls = arrs[2].len

\* C5: a == b iff the lengths match and every row is null in both or valid
\* in both with equal values under f64's equality.
EqualityIsRowwise ==
  /\ last.op = "eq" =>
       (last.ret <=> RowsEqual(arrs[last.a].src, arrs[last.b].src))
  /\ \A a, b \in Slots : (Usable(a) /\ Usable(b)) =>
       (eq(heap, arrs[a], arrs[b]).ret <=> RowsEqual(arrs[a].src, arrs[b].src))

\* An array with a valid NaN row was found unequal to itself.
EqualityIsRowwiseWitness ==
  /\ last.op = "eq" /\ last.a = last.b /\ ~last.ret
  /\ \E i \in 1..Len(arrs[last.a].src) : arrs[last.a].src[i] = Some(NaN)

\* C6: converting a NaN-free sequence into an array and the array back into
\* a vector gives the sequence back, element for element.
RoundTrip ==
  (last.op = "collect" /\ NaNFree(last.ret.src)) =>
    /\ Len(last.ret.vec) = Len(last.ret.src)
    /\ \A i \in 1..Len(last.ret.src) : OptEq(last.ret.vec[i], last.ret.src[i])

\* A round trip of a sequence with null and valid rows whose length is
\* above one validity byte and no multiple of it.
RoundTripWitness ==
  /\ last.op = "collect"
  /\ Len(last.ret.src) > BitsPerByte /\ Len(last.ret.src) % BitsPerByte # 0
  /\ \E i, j \in 1..Len(last.ret.src) :
       last.ret.src[i] = None /\ last.ret.src[j] # None
  /\ last.ret.vec = last.ret.src

\* C7: the k-th call of next() returns row k (get_ref for the borrowing
\* iterator, get for the others), which is row k of the input, for the first
\* len calls and the end marker on every later call.
IterationOrder ==
  it.kind # "none" =>
    LET arr == arrs[it.slot] IN
    \A k \in 1..Len(it.out) :
      IF k <= arr.len
      THEN /\ it.out[k] = Some(IterItem(heap, it.kind, arr, k - 1).ret)
           /\ IF it.kind = "iter"
              THEN copied(heap, it.out[k][1]).ret = arr.src[k]
              ELSE it.out[k][1] = arr.src[k]
      ELSE it.out[k] = None

\* A consuming iterator over an array with null and valid rows was called
\* twice more after its last row.
IterationOrderWitness ==
  /\ it.kind = "into"
  /\ arrs[it.slot].len >= 2
  /\ arrs[it.slot].nulls > 0 /\ arrs[it.slot].nulls < arrs[it.slot].len
  /\ Len(it.out) = arrs[it.slot].len + 2

\* C8: size_hint(), len() and count() never panic and report the number of
\* items still to be yielded, 0 once the iterator is exhausted.
ExactRemaining ==
  last.op \in {"size_hint", "len", "count"} =>
    /\ ~last.panic
    /\ last.ret = IF last.idx >= last.len THEN 0 ELSE last.len - last.idx

\* C9: a clone has the length, null count and buffers-present pattern of the
\* original, equals it when NaN-free, and owns buffers of its own; every
\* array stays readable row by row whatever was dropped, and a drop releases
\* the buffers of the dropped array only.
CloneIndependence ==
  /\ last.op = "clone" =>
       LET A == arrs[last.a]
           B == arrs[last.b]
       IN /\ B.len = A.len /\ B.nulls = A.nulls
          /\ (B.ptr = NoPtr) <=> (A.ptr = NoPtr)
          /\ (B.val_ptr = NoPtr) <=> (A.val_ptr = NoPtr)
          /\ NaNFree(A.src) => (eq(heap, A, B).ret /\ eq(heap, B, A).ret)
  /\ \A a, b \in Slots : a # b => Owned(a) \cap Owned(b) = {}
  /\ \A a \in Slots : Usable(a) =>
       \A idx \in 0..(arrs[a].len - 1) :
         LET g == get(heap, arrs[a], idx) IN
         /\ g.ret = arrs[a].src[idx + 1]
         /\ \A r \in g.reads : ReadOk(heap, r[1], r[2])
  /\ last.op = "drop" =>
       (heap.faults = {} /\ LiveAddrs = UNION {Owned(a) : a \in Slots})

\* The original was dropped and its clone, which has both buffers, is left.
CloneIndependenceWitness ==
  /\ last.op = "drop" /\ last.a = 1
  /\ Usable(2) /\ arrs[2].from = 1
  /\ arrs[2].ptr # NoPtr /\ arrs[2].val_ptr # NoPtr

\* C10: a validity buffer that is present has ceil(len/8) bytes, all written;
\* bit (i % 8) of byte (i / 8) is 1 iff row i is valid, and the bits of the
\* last byte past the last row are 0.
ValidityLayout ==
  \A a \in Slots : (Usable(a) /\ arrs[a].val_ptr # NoPtr) =>
    LET arr == arrs[a]
        cells == heap.bufs[arr.val_ptr].cells
        n == (arr.len + BitsPerByte - 1) \div BitsPerByte
    IN /\ Len(cells) = n
       /\ \A j \in 1..n : cells[j] # <<>>
       /\ \A p \in 0..(n * BitsPerByte - 1) :
            Bit(cells[(p \div BitsPerByte) + 1][1], p % BitsPerByte)
              = IF p < arr.len /\ arr.src[p + 1] # None THEN 1 ELSE 0

\* An array over two validity bytes, the second one partial, whose first
\* byte has valid rows and whose last row is null.
ValidityLayoutWitness ==
  /\ Usable(1) /\ arrs[1].val_ptr # NoPtr
  /\ arrs[1].len > BitsPerByte /\ arrs[1].len % BitsPerByte # 0
  /\ arrs[1].src[BitsPerByte] # None /\ arrs[1].src[2] # None
  /\ arrs[1].src[arrs[1].len] = None
====
